---- MODULE Spec2Model ----
(***************************************************************************)
(* Bill extraction pipeline: the request handler extract_bill_data         *)
(* (src/main.py), the page extractor extract_data_from_image_async and the *)
(* item sanitizer clean_and_validate_items (src/services.py).              *)
(*                                                                         *)
(* Two specifications share the variables:                                 *)
(*   Spec           one request: download, rasterize, fan-out under the    *)
(*                  semaphore, gather, aggregate, respond;                 *)
(*   SpecSanitizer  the sanitizer's loop run on one input item list.       *)
(***************************************************************************)
EXTENDS Integers, Sequences, FiniteSets, TLC

(***************************************************************************)
(* Text.  A Python str is a sequence of one-character strings.             *)
(*                                                                         *)
(* Throughout, an intermediate value that later expressions use many times *)
(* is bound once by  CHOOSE r \in {F(x) : x \in {value}} : TRUE,  which     *)
(* reads "F(value)".                                                       *)
(***************************************************************************)

\* str.lower() on one character
LowerChar(c) ==
  CASE c = "A" -> "a" [] c = "B" -> "b" [] c = "C" -> "c" [] c = "D" -> "d"
    [] c = "E" -> "e" [] c = "F" -> "f" [] c = "G" -> "g" [] c = "H" -> "h"
    [] c = "I" -> "i" [] c = "J" -> "j" [] c = "K" -> "k" [] c = "L" -> "l"
    [] c = "M" -> "m" [] c = "N" -> "n" [] c = "O" -> "o" [] c = "P" -> "p"
    [] c = "Q" -> "q" [] c = "R" -> "r" [] c = "S" -> "s" [] c = "T" -> "t"
    [] c = "U" -> "u" [] c = "V" -> "v" [] c = "W" -> "w" [] c = "X" -> "x"
    [] c = "Y" -> "y" [] c = "Z" -> "z" [] OTHER -> c

\* str.lower()
Lower(s) == [i \in 1..Len(s) |-> LowerChar(s[i])]

\* the characters str.strip() and float() remove at both ends
IsSpace(c) == c = " "

\* str.strip()
Strip(s) ==
  IF \A i \in 1..Len(s) : IsSpace(s[i]) THEN <<>>
  ELSE SubSeq(s,
              CHOOSE i \in 1..Len(s) : ~IsSpace(s[i]) /\ \A j \in 1..(i - 1) : IsSpace(s[j]),
              CHOOSE i \in 1..Len(s) : ~IsSpace(s[i]) /\ \A j \in (i + 1)..Len(s) : IsSpace(s[j]))

\* needle in hay
Contains(hay, needle) ==
  \E i \in 1..(Len(hay) - Len(needle) + 1) :
     SubSeq(hay, i, i + Len(needle) - 1) = needle

\* s.startswith(p)
StartsWith(s, p) == Len(p) <= Len(s) /\ SubSeq(s, 1, Len(p)) = p

\* s.endswith(p)
EndsWith(s, p) == Len(p) <= Len(s) /\ SubSeq(s, Len(s) - Len(p) + 1, Len(s)) = p

(***************************************************************************)
(* Numbers.  A Python float is an integer count of 1/Unit; the values the  *)
(* model draws are exact at this resolution, and so are their products.    *)
(***************************************************************************)
Unit == 10000

\* a * b on floats, computed in two halves to stay within machine integers
Mul(a, b) ==
  LET ah == a \div Unit
      al == a % Unit
      bh == b \div Unit
      bl == b % Unit
  IN  ah * bh * Unit + ah * bl + al * bh + (al * bl) \div Unit

\* n / d rounded to the nearest integer, ties to even
RoundHalfEven(n, d) ==
  LET q == n \div d
      r == n % d
  IN  IF 2 * r < d THEN q
      ELSE IF 2 * r > d THEN q + 1
      ELSE IF q % 2 = 0 THEN q ELSE q + 1

\* round(x, 2)
Round2(x) == RoundHalfEven(x, Unit \div 100) * (Unit \div 100)

(***************************************************************************)
(* JSON values as json.loads returns them for an item's fields.            *)
(*   t  the Python type; n  the number (num, in 1/Unit), the truth value   *)
(*   (bool) or the number of elements (list, dict); s  the text (str).     *)
(***************************************************************************)
JMissing == [t |-> "missing", n |-> 0, s |-> <<>>]
JNull    == [t |-> "null", n |-> 0, s |-> <<>>]
JNum(x)  == [t |-> "num", n |-> x, s |-> <<>>]
JStr(x)  == [t |-> "str", n |-> 0, s |-> x]
JList(k) == [t |-> "list", n |-> k, s |-> <<>>]
JDict(k) == [t |-> "dict", n |-> k, s |-> <<>>]
JBool(b) == [t |-> "bool", n |-> IF b THEN 1 ELSE 0, s |-> <<>>]

\* bool(v): Python truthiness
Truthy(v) ==
  CASE v.t = "null" -> FALSE
    [] v.t = "num"  -> v.n # 0
    [] v.t = "str"  -> Len(v.s) > 0
    [] v.t = "list" -> v.n > 0
    [] v.t = "dict" -> v.n > 0
    [] v.t = "bool" -> v.n = 1
    [] OTHER -> FALSE

\* item.get(key, default) or default
GetOr(v, default) ==
  LET got == IF v.t = "missing" THEN JNum(default) ELSE v
  IN  IF Truthy(got) THEN got ELSE JNum(default)

DigitValue(c) ==
  CASE c = "0" -> 0 [] c = "1" -> 1 [] c = "2" -> 2 [] c = "3" -> 3 [] c = "4" -> 4
    [] c = "5" -> 5 [] c = "6" -> 6 [] c = "7" -> 7 [] c = "8" -> 8 [] c = "9" -> 9
    [] OTHER -> -1

IsDigit(c) == DigitValue(c) >= 0

RECURSIVE Pow10(_)
Pow10(k) == IF k = 0 THEN 1 ELSE 10 * Pow10(k - 1)

\* the number a string of decimal digits spells
DigitsValue(ds) ==
  LET place[i \in 0..Len(ds)] ==
        IF i = 0 THEN 0 ELSE DigitValue(ds[i]) * Pow10(Len(ds) - i) + place[i - 1]
  IN  place[Len(ds)]

\* float(str): optional sign, digits with at most one decimal point
\* (the texts drawn carry no exponent, "inf" or "nan")
ParseUnsigned(neg, body) ==
  LET dots  == {i \in 1..Len(body) : body[i] = "."}
      wellFormed ==
        /\ \A i \in 1..Len(body) : IsDigit(body[i]) \/ body[i] = "."
        /\ Cardinality(dots) <= 1
        /\ \E i \in 1..Len(body) : IsDigit(body[i])
      dot   == IF dots = {} THEN Len(body) + 1 ELSE CHOOSE i \in dots : TRUE
      whole == SubSeq(body, 1, dot - 1)
      frac  == SubSeq(body, dot + 1, Len(body))
      mag   == DigitsValue(whole) * Unit + (DigitsValue(frac) * Unit) \div Pow10(Len(frac))
  IN  IF wellFormed
        THEN [err |-> "none", n |-> IF neg THEN 0 - mag ELSE mag]
        ELSE [err |-> "ValueError", n |-> 0]

ParseFloat(text) ==
  CHOOSE r \in { ParseUnsigned(Len(s0) > 0 /\ s0[1] = "-",
                               IF Len(s0) > 0 /\ s0[1] \in {"-", "+"} THEN Tail(s0) ELSE s0)
                 : s0 \in {Strip(text)} } : TRUE

\* float(v)
Float(v) ==
  CASE v.t = "num"  -> [err |-> "none", n |-> v.n]
    [] v.t = "bool" -> [err |-> "none", n |-> v.n * Unit]
    [] v.t = "str"  -> ParseFloat(v.s)
    [] OTHER        -> [err |-> "TypeError", n |-> 0]

(***************************************************************************)
(* The item sanitizer.                                                     *)
(***************************************************************************)
BANNED_KEYWORDS ==
  << <<"t", "o", "t", "a", "l">>,
     <<"s", "u", "b", "t", "o", "t", "a", "l">>,
     <<"s", "u", "b", " ", "t", "o", "t", "a", "l">>,
     <<"n", "e", "t", " ", "a", "m", "o", "u", "n", "t">>,
     <<"g", "r", "a", "n", "d", " ", "t", "o", "t", "a", "l">>,
     <<"t", "a", "x">>,
     <<"g", "s", "t">>,
     <<"v", "a", "t">>,
     <<"d", "i", "s", "c", "o", "u", "n", "t">>,
     <<"r", "o", "u", "n", "d", " ", "o", "f", "f">>,
     <<"b", "a", "l", "a", "n", "c", "e">>,
     <<"a", "m", "o", "u", "n", "t", " ", "d", "u", "e">>,
     <<"g", "r", "o", "s", "s", " ", "a", "m", "o", "u", "n", "t">>,
     <<"c", "g", "s", "t">>,
     <<"s", "g", "s", "t">>,
     <<"i", "g", "s", "t">>,
     <<"t", "o", "t", "a", "l", " ", "a", "m", "o", "u", "n", "t">> >>

\* the test of services.py line 56 for one keyword
KeywordMatches(kw, name_lower) ==
  \/ kw = name_lower
  \/ Contains(<<" ">> \o name_lower \o <<" ">>, <<" ">> \o kw \o <<" ">>)
  \/ StartsWith(name_lower, kw \o <<" ">>)
  \/ EndsWith(name_lower, <<" ">> \o kw)

\* the loop over BANNED_KEYWORDS
is_banned(name_lower) ==
  \E k \in 1..Len(BANNED_KEYWORDS) : KeywordMatches(BANNED_KEYWORDS[k], name_lower)

\* str(item.get("item_name", ""))
NameText(v) ==
  CASE v.t = "missing" -> <<>>
    [] v.t = "null"    -> <<"N", "o", "n", "e">>
    [] OTHER           -> v.s

NoItem == [item_name |-> <<>>, item_amount |-> 0, item_rate |-> 0, item_quantity |-> 0]

\* the auto-correction of services.py lines 72-73
Backfill(amount, rate, qty) ==
  IF amount = 0 /\ rate > 0 THEN Mul(rate, qty) ELSE amount

\* what the row's try/except (services.py lines 66, 81-82) does with a raised error
RowError(err) == IF err = "ValueError" THEN "dropped" ELSE err

\* Rule 3 of the loop body for a row whose name passed rules 1 and 2
Normalize(name, qty, rate, amount) ==
  IF qty.err # "none" THEN [o |-> RowError(qty.err), out |-> NoItem]
  ELSE IF rate.err # "none" THEN [o |-> RowError(rate.err), out |-> NoItem]
  ELSE IF amount.err # "none" THEN [o |-> RowError(amount.err), out |-> NoItem]
  ELSE [o |-> "kept",
        out |-> [item_name     |-> name,
                 item_amount   |-> Round2(Backfill(amount.n, rate.n, qty.n)),
                 item_rate     |-> Round2(rate.n),
                 item_quantity |-> qty.n]]

\* The loop body from rule 1 on, for the stripped name and its lower-case form
CleanNamed(item, name, name_lower) ==
  IF name = <<>> \/ name_lower = <<"u", "n", "k", "n", "o", "w", "n">>
    THEN [o |-> "dropped", out |-> NoItem]
  ELSE IF is_banned(name_lower)
    THEN [o |-> "dropped", out |-> NoItem]
  ELSE CHOOSE r \in { Normalize(name, qty, rate, amount) :
                        qty    \in {Float(GetOr(item.item_quantity, Unit))},
                        rate   \in {Float(GetOr(item.item_rate, 0))},
                        amount \in {Float(GetOr(item.item_amount, 0))} } : TRUE

\* One pass of the loop body of clean_and_validate_items:
\*   o = "kept" with the row appended, "dropped", or the exception that leaves the loop.
CleanItem(item) ==
  IF item.t # "dict" THEN [o |-> "AttributeError", out |-> NoItem]
  ELSE CHOOSE r \in { CleanNamed(item, name, Lower(name)) :
                        name \in {Strip(NameText(item.item_name))} } : TRUE

\* clean_and_validate_items(items): the loop over all items. The rows kept, in
\* input order, or the first exception that leaves the loop.
LoopResult(outcome) ==
  IF \E i \in 1..Len(outcome) : outcome[i].o \notin {"kept", "dropped"}
    THEN [err |-> outcome[CHOOSE i \in 1..Len(outcome) :
                            /\ outcome[i].o \notin {"kept", "dropped"}
                            /\ \A j \in 1..(i - 1) : outcome[j].o \in {"kept", "dropped"}].o,
          items |-> <<>>]
    ELSE CHOOSE r \in { [err |-> "none", items |-> [k \in 1..Len(kept) |-> kept[k].out]] :
                          kept \in {SelectSeq(outcome, LAMBDA x : x.o = "kept")} } : TRUE

clean_and_validate_items(items) ==
  CHOOSE r \in { LoopResult(outcome) :
                   outcome \in {[i \in 1..Len(items) |-> CleanItem(items[i])]} } : TRUE

(***************************************************************************)
(* The inputs drawn: item records as the model's reply may carry them.     *)
(***************************************************************************)
Item(name, qty, rate, amount) ==
  [t |-> "dict", item_name |-> name, item_quantity |-> qty,
   item_rate |-> rate, item_amount |-> amount]

\* an element of bill_items that is not an object (a bare string)
NonDictItem ==
  [t |-> "str", item_name |-> JMissing, item_quantity |-> JMissing,
   item_rate |-> JMissing, item_amount |-> JMissing]

Paracetamol == JStr(<<"P", "a", "r", "a", "c", "e", "t", "a", "m", "o", "l">>)
TotalName   == JStr(<<"T", "o", "t", "a", "l">>)

NameSamples ==
  { JMissing, JNull,
    JStr(<<>>),
    JStr(<<" ", " ">>),
    JStr(<<"U", "n", "k", "n", "o", "w", "n">>),
    TotalName,
    JStr(<<" ", "t", "o", "t", "a", "l", " ">>),
    Paracetamol,
    JStr(<<"T", "o", "t", "a", "l", " ", "K", "n", "e", "e">>),
    JStr(<<"R", "o", "o", "m", " ", "T", "o", "t", "a", "l">>),
    JStr(<<"L", "e", "s", "s", " ", "D", "i", "s", "c", "o", "u", "n", "t", " ", "G", "i", "v", "e", "n">>),
    JStr(<<"T", "a", "x", "i", "m">>),
    JStr(<<"S", "u", "b", " ", "T", "o", "t", "a", "l">>),
    JStr(<<"T", "o", "t", "a", "l", ":">>),
    JStr(<<"G", "S", "T">>),
    JStr(<<" ", "X", " ", "R", "a", "y">>) }

\* <<quantity, rate, amount>>
NumericSamples ==
  { <<JNum(2 * Unit), JNum(10 * Unit), JNum(0)>>,
    <<JNum(5 * Unit), JNum(10 * Unit), JNum(0)>>,
    <<JNum(0), JNum(10 * Unit), JNum(0)>>,
    <<JMissing, JNum(10 * Unit), JNum(0)>>,
    <<JNull, JNum(10 * Unit), JMissing>>,
    <<JNum(2 * Unit), JNum(10 * Unit), JNull>>,
    <<JNum(2 * Unit), JNum(10 * Unit), JNum(50 * Unit)>>,
    <<JNum(2 * Unit), JNum(10 * Unit), JNum(123440)>>,
    <<JNum(Unit), JNum(5 * Unit), JNum(40)>>,
    <<JNum(6000), JNum(60), JNum(0)>>,
    <<JStr(<<"a", "b", "c">>), JNum(10 * Unit), JNum(20 * Unit)>>,
    <<JNum(2 * Unit), JStr(<<"a", "b", "c">>), JNum(20 * Unit)>>,
    <<JNum(2 * Unit), JNum(10 * Unit), JStr(<<"1", ",", "0", "0", "0">>)>>,
    <<JStr(<<"a", "b", "c">>), JList(1), JNum(20 * Unit)>>,
    <<JList(1), JNum(10 * Unit), JNum(20 * Unit)>>,
    <<JNum(2 * Unit), JDict(1), JNum(20 * Unit)>>,
    <<JNum(2 * Unit), JNum(10 * Unit), JList(1)>>,
    <<JList(0), JNum(10 * Unit), JNum(0)>>,
    <<JStr(<<>>), JNum(10 * Unit), JDict(0)>>,
    <<JBool(TRUE), JNum(10 * Unit), JNum(0)>>,
    <<JBool(FALSE), JNum(10 * Unit), JBool(FALSE)>>,
    <<JStr(<<"3">>), JStr(<<"1", "0", ".", "5">>), JStr(<<"0">>)>>,
    <<JNum(2 * Unit), JNum(0 - 5 * Unit), JNum(0)>>,
    <<JNum(0 - Unit), JNum(10 * Unit), JNum(0)>>,
    <<JNum(2 * Unit), JNum(10 * Unit), JNum(0 - 20 * Unit)>>,
    <<JNum(2 * Unit), JNum(0), JNum(0)>>,
    <<JNum(2 * Unit), JMissing, JMissing>> }

ItemSamples ==
    {Item(n, JNum(2 * Unit), JNum(10 * Unit), JNum(0)) : n \in NameSamples}
  \cup {Item(Paracetamol, x[1], x[2], x[3]) : x \in NumericSamples}
  \cup {Item(TotalName, JList(1), JNum(10 * Unit), JNum(0)), NonDictItem}

\* the longest item list drawn
MaxItems == 2

RECURSIVE SeqsUpTo(_, _)
SeqsUpTo(S, n) ==
  IF n = 0 THEN {<<>>}
  ELSE LET shorter == SeqsUpTo(S, n - 1)
       IN  shorter \cup {Append(q, x) : q \in {p \in shorter : Len(p) = n - 1}, x \in S}

ItemLists == SeqsUpTo(ItemSamples, MaxItems)

(***************************************************************************)
(* The vision model's reply for one page.                                  *)
(*   raises   the call itself raised (network, model error, timeout)       *)
(*   content  the reply text: fence = wrapped in a markdown code fence,    *)
(*            body = what the text between spells:                         *)
(*              t = "garbage" (not JSON), "array" (JSON, not an object),   *)
(*              "object" with page_type and bill_items                     *)
(*   usage    response.usage                                               *)
(***************************************************************************)
NoUsage == [present |-> FALSE, prompt_tokens |-> 0, completion_tokens |-> 0, total_tokens |-> 0]

Usage(p, c, t) ==
  [present |-> TRUE, prompt_tokens |-> p, completion_tokens |-> c, total_tokens |-> t]

NoBody == [t |-> "garbage", page_type |-> JMissing, bill_items |-> [t |-> "missing", items |-> <<>>]]

Object(pt, items) == [t |-> "object", page_type |-> pt, bill_items |-> items]

ItemList(items) == [t |-> "list", items |-> items]

Raises == [raises |-> TRUE, content |-> [fence |-> FALSE, body |-> NoBody], usage |-> NoUsage]

Reply(fence, body, usage) ==
  [raises |-> FALSE, content |-> [fence |-> fence, body |-> body], usage |-> usage]

GoodItem   == Item(Paracetamol, JNum(5 * Unit), JNum(10 * Unit), JNum(0))
TotalItem  == Item(TotalName, JMissing, JMissing, JNum(5000 * Unit))
TaximItem  == Item(JStr(<<"T", "a", "x", "i", "m">>), JNum(2 * Unit), JNum(10 * Unit), JNum(50 * Unit))
BadStrItem == Item(Paracetamol, JStr(<<"a", "b", "c">>), JNum(10 * Unit), JNum(20 * Unit))
ListItem   == Item(Paracetamol, JList(1), JNum(10 * Unit), JNum(20 * Unit))
RefundItem == Item(JStr(<<"R", "e", "f", "u", "n", "d">>), JNum(0 - Unit), JNum(0 - 20 * Unit), JNum(0 - 20 * Unit))

ReplySamples ==
  << Raises,
    Reply(FALSE, NoBody, Usage(7, 1, 8)),
    Reply(TRUE, Object(JStr(<<"Pharmacy">>), ItemList(<<GoodItem>>)), Usage(5, 2, 7)),
    Reply(FALSE, Object(JStr(<<"Pharmacy">>), ItemList(<<GoodItem, TotalItem>>)), Usage(5, 2, 7)),
    Reply(FALSE, Object(JStr(<<"Final Bill">>), ItemList(<<TaximItem, BadStrItem, GoodItem>>)), Usage(3, 4, 9)),
    Reply(FALSE, Object(JStr(<<"Pharmacy">>), ItemList(<<TaximItem, ListItem>>)), Usage(3, 4, 9)),
    Reply(FALSE, Object(JStr(<<"Invoice">>), ItemList(<<TaximItem, RefundItem>>)), NoUsage),
    Reply(FALSE, Object(JMissing, [t |-> "missing", items |-> <<>>]), Usage(1, 1, 2)) >>

\* json.loads(result_text): text in a code fence, or not JSON at all, does not parse
JsonLoads(content) ==
  IF content.fence \/ content.body.t = "garbage"
    THEN [err |-> "JSONDecodeError", value |-> NoBody]
    ELSE [err |-> "none", value |-> content.body]

PAGE_TYPES == {<<"Bill Detail">>, <<"Final Bill">>, <<"Pharmacy">>}

\* the except branch of extract_data_from_image_async: safe empty data, no usage
SafeEmpty == [page_type |-> <<"Bill Detail">>, bill_items |-> <<>>, usage |-> NoUsage]

\* a plausible slip: the model's page type is returned as it came
TypedResultUnchecked(data, cleaned, usage) ==
  IF cleaned.err # "none" THEN SafeEmpty
  ELSE [page_type  |-> IF data.page_type.t = "str" THEN data.page_type.s ELSE <<"">>,
        bill_items |-> cleaned.items,
        usage      |-> usage]

\* a plausible slip: the except branch still hands back the usage of the reply
TypedResultKeepsUsage(data, cleaned, usage) ==
  IF cleaned.err # "none" THEN [SafeEmpty EXCEPT !.usage = usage]
  ELSE [page_type  |-> IF data.page_type.t = "str" /\ data.page_type.s \in PAGE_TYPES
                         THEN data.page_type.s ELSE <<"Bill Detail">>,
        bill_items |-> cleaned.items,
        usage      |-> usage]

\* Page Type Safety and the return of the try block, for the cleaned item list
TypedResult(data, cleaned, usage) ==
  IF cleaned.err # "none" THEN SafeEmpty
  ELSE [page_type  |-> IF data.page_type.t = "str" /\ data.page_type.s \in PAGE_TYPES
                         THEN data.page_type.s ELSE <<"Bill Detail">>,
        bill_items |-> cleaned.items,
        usage      |-> usage]

\* The try block of extract_data_from_image_async once the call has completed:
\* parse, sanitize, page-type safety; any exception ends in the except branch.
ExtractResult(r) ==
  IF r.raises THEN SafeEmpty
  ELSE IF JsonLoads(r.content).err # "none" THEN SafeEmpty
  ELSE IF JsonLoads(r.content).value.t # "object" THEN SafeEmpty
  ELSE IF JsonLoads(r.content).value.bill_items.t = "null" THEN SafeEmpty
  ELSE CHOOSE res \in
         { TypedResult(data, cleaned, r.usage) :
             data \in {JsonLoads(r.content).value},
             cleaned \in {clean_and_validate_items(
                            IF JsonLoads(r.content).value.bill_items.t = "missing" THEN <<>>
                            ELSE JsonLoads(r.content).value.bill_items.items)} } : TRUE

(***************************************************************************)
(* The request's document.                                                 *)
(*   reachable  the GET answers with a success status                      *)
(*   pdf        the bytes start with the PDF signature                     *)
(*   decodable  the PDF opens and renders / the image file opens           *)
(*   pages      one entry per page image: TRUE when the image can be       *)
(*              written as JPEG by encode_image                            *)
(***************************************************************************)
\* the most pages a document drawn has
MaxPages == 4

Document(reachable, pdf, decodable, pages) ==
  [reachable |-> reachable, pdf |-> pdf, decodable |-> decodable, pages |-> pages]

Documents ==
       {Document(FALSE, TRUE, TRUE, <<TRUE>>)}
  \cup {Document(TRUE, pdf, FALSE, <<>>) : pdf \in BOOLEAN}
  \cup {Document(TRUE, FALSE, TRUE, <<e>>) : e \in BOOLEAN}
  \cup {Document(TRUE, TRUE, TRUE, ps) : ps \in SeqsUpTo(BOOLEAN, MaxPages)}

\* download_file(url): the bytes, or ValueError
download_file(d) ==
  IF d.reachable THEN [err |-> "none", bytes |-> d]
  ELSE [err |-> "Failed to download document", bytes |-> d]

\* a plausible slip: an unreadable file yields an empty page list instead of raising
get_pdf_images_swallow(bytes) ==
  IF bytes.decodable THEN [err |-> "none", images |-> bytes.pages]
  ELSE [err |-> "none", images |-> <<>>]

\* get_pdf_images(file_bytes): the list of page images, or ValueError
get_pdf_images(bytes) ==
  IF bytes.decodable
    THEN [err |-> "none", images |-> IF bytes.pdf THEN bytes.pages ELSE <<bytes.pages[1]>>]
    ELSE [err |-> "Failed to process file format.", images |-> <<>>]

\* encode_image(image): TRUE when it returns, FALSE when image.save raises
encode_image(image) == image

\* asyncio.Semaphore(3)
SEMAPHORE_SIZE == 3

(***************************************************************************)
(* State.                                                                  *)
(***************************************************************************)
VARIABLES
  doc,        \* the document behind request.document
  pc,         \* the handler: "start", "gather" (awaiting asyncio.gather), "done"
  images,     \* the list get_pdf_images returned
  semValue,   \* sem._value
  waiters,    \* sem._waiters, oldest first
  tstate,     \* per page task: "created", "waiting", "woken", "awaiting", "done", "raised"
  called,     \* the pages whose model call has been issued
  reply,      \* per page: which of ReplySamples its model call produced (0 before)
  outOfOrder, \* history: some task finished while a task of an earlier page had not
  results,    \* gather's result list: one slot per task
  resp,       \* the ExtractionResponse returned
  items,      \* sanitizer: the input list
  idx,        \* sanitizer: index of the next input item
  cleaned,    \* sanitizer: the list built so far
  origin,     \* sanitizer: for each row of cleaned, the input index it came from
  sanState    \* sanitizer: "idle", "loop", "returned" or the exception raised

vars == <<doc, pc, images, semValue, waiters, tstate, called, reply, outOfOrder, results, resp,
          items, idx, cleaned, origin, sanState>>

pipelineVars  == <<doc, pc, images, semValue, waiters, tstate, called, reply, outOfOrder,
                   results, resp>>
sanitizerVars == <<items, idx, cleaned, origin, sanState>>

Pages == 1..Len(images)

NoResult == [page_type |-> <<>>, bill_items |-> <<>>, usage |-> NoUsage]

NoResponse ==
  [returned |-> FALSE, is_success |-> FALSE,
   token_usage |-> [total_tokens |-> 0, input_tokens |-> 0, output_tokens |-> 0],
   data |-> [pagewise_line_items |-> <<>>, total_item_count |-> 0],
   error |-> ""]

(***************************************************************************)
(* asyncio.Semaphore: acquire is immediate when the semaphore is not       *)
(* locked; release hands the permit to the oldest waiter still waiting.    *)
(***************************************************************************)
\* a plausible slip: release() without _wake_up_next()
ReleaseNoWake(v, ts) == [value |-> v + 1, tstate |-> ts]

\* release() with _value = v: the value and the task states after
\* _value += 1; _wake_up_next()
Release(v, ts) ==
  LET waiting == {k \in 1..Len(waiters) : ts[waiters[k]] = "waiting"}
  IN  IF waiting = {}
        THEN [value |-> v + 1, tstate |-> ts]
        ELSE LET k == CHOOSE x \in waiting : \A y \in waiting : x <= y
             IN  [value |-> v, tstate |-> [ts EXCEPT ![waiters[k]] = "woken"]]

(***************************************************************************)
(* The handler, up to its await of asyncio.gather (main.py lines 22-44).   *)
(***************************************************************************)
\* the except branch of extract_bill_data
FailureResponse(e) ==
  [returned |-> TRUE, is_success |-> FALSE,
   token_usage |-> [total_tokens |-> 0, input_tokens |-> 0, output_tokens |-> 0],
   data |-> [pagewise_line_items |-> <<>>, total_item_count |-> 0],
   error |-> e]

HandlerBegin ==
  /\ pc = "start"
  /\ LET dl == download_file(doc)
         im == get_pdf_images(dl.bytes)
     IN  IF dl.err # "none"
           THEN /\ resp' = FailureResponse(dl.err)
                /\ pc' = "done"
                /\ UNCHANGED <<images, semValue, waiters, tstate, reply, results>>
         ELSE IF im.err # "none"
           THEN /\ resp' = FailureResponse(im.err)
                /\ pc' = "done"
                /\ UNCHANGED <<images, semValue, waiters, tstate, reply, results>>
         ELSE /\ images' = im.images
              /\ semValue' = SEMAPHORE_SIZE
              /\ waiters' = <<>>
              /\ tstate' = [i \in 1..Len(im.images) |-> "created"]
              /\ reply' = [i \in 1..Len(im.images) |-> 0]
              /\ results' = [i \in 1..Len(im.images) |-> NoResult]
              /\ pc' = "gather"
              /\ UNCHANGED resp
  /\ UNCHANGED <<doc, called, outOfOrder, sanitizerVars>>

(***************************************************************************)
(* One page's task, extract_data_from_image_async, between its suspension  *)
(* points.  The tasks gather schedules take their first step in list order; *)
(* an awaited model call completes at any later moment.                    *)
(***************************************************************************)
AllStarted == \A i \in Pages : tstate[i] # "created"

\* a plausible slip: the semaphore refuses only when others already wait
lockedWaitersOnly == waiters # <<>>

\* Semaphore.locked()
locked == semValue = 0 \/ waiters # <<>>

\* Inside "async with semaphore", holding a permit with _value = v: encode the
\* image and issue the model call, or leave the block with encode_image's
\* exception (the permit is released on the way out).
EnterSection(i, v, ts) ==
  IF encode_image(images[i])
    THEN /\ tstate' = [ts EXCEPT ![i] = "awaiting"]
         /\ semValue' = v
         /\ called' = called \cup {i}
    ELSE /\ \E rel \in {Release(v, [ts EXCEPT ![i] = "raised"])} :
              /\ tstate' = rel.tstate
              /\ semValue' = rel.value
         /\ UNCHANGED called

\* first step of task i: acquire at once, or queue behind the semaphore
TaskStart(i) ==
  /\ tstate[i] = "created"
  /\ \A j \in Pages : j < i => tstate[j] # "created"
  /\ IF ~locked
       THEN /\ EnterSection(i, semValue - 1, tstate)
            /\ UNCHANGED waiters
       ELSE /\ waiters' = Append(waiters, i)
            /\ tstate' = [tstate EXCEPT ![i] = "waiting"]
            /\ UNCHANGED <<semValue, called>>
  /\ UNCHANGED <<doc, pc, images, reply, outOfOrder, results, resp, sanitizerVars>>

\* task i resumes from acquire() with the permit handed to it
TaskResume(i) ==
  /\ tstate[i] = "woken"
  /\ waiters' = SelectSeq(waiters, LAMBDA w : w # i)
  /\ EnterSection(i, semValue, tstate)
  /\ UNCHANGED <<doc, pc, images, reply, outOfOrder, results, resp, sanitizerVars>>

\* a plausible slip: results collected in the order the tasks finish
StoreResultInCompletionOrder(res, i, r) ==
  LET free == {k \in 1..Len(res) : res[k] = NoResult}
  IN  [res EXCEPT ![CHOOSE k \in free : \A m \in free : k <= m] = r]

\* gather keeps each task's result in the slot of the task's position
StoreResult(res, i, r) == [res EXCEPT ![i] = r]

\* the model call of task i completes with reply ReplySamples[r]: the rest of the try block
\* runs, the task returns and the permit is released
ModelReturn(i, r) ==
  /\ tstate[i] = "awaiting"
  /\ reply' = [reply EXCEPT ![i] = r]
  /\ \E res \in {ExtractResult(ReplySamples[r])} : results' = StoreResult(results, i, res)
  /\ \E rel \in {Release(semValue, [tstate EXCEPT ![i] = "done"])} :
       /\ tstate' = rel.tstate
       /\ semValue' = rel.value
  /\ outOfOrder' = (outOfOrder \/ \E j \in 1..(i - 1) : tstate[j] \notin {"done", "raised"})
  /\ UNCHANGED <<doc, pc, images, waiters, called, resp, sanitizerVars>>


(***************************************************************************)
(* The handler after gather (main.py lines 46-90).                         *)
(***************************************************************************)
DigitChar(d) ==
  CASE d = 0 -> "0" [] d = 1 -> "1" [] d = 2 -> "2" [] d = 3 -> "3" [] d = 4 -> "4"
    [] d = 5 -> "5" [] d = 6 -> "6" [] d = 7 -> "7" [] d = 8 -> "8" [] d = 9 -> "9"

\* str(n) for n >= 0
RECURSIVE IntToStr(_)
IntToStr(n) == IF n < 10 THEN <<DigitChar(n)>> ELSE Append(IntToStr(n \div 10), DigitChar(n % 10))

\* a plausible slip: = instead of +=
AddUsageOverwrite(totals, usage) ==
  IF usage.present
    THEN [input_tokens  |-> usage.prompt_tokens,
          output_tokens |-> usage.completion_tokens,
          total_tokens  |-> usage.total_tokens]
    ELSE totals

\* main.py lines 50-53
AddUsage(totals, usage) ==
  IF usage.present
    THEN [input_tokens  |-> totals.input_tokens + usage.prompt_tokens,
          output_tokens |-> totals.output_tokens + usage.completion_tokens,
          total_tokens  |-> totals.total_tokens + usage.total_tokens]
    ELSE totals

\* a plausible slip: pages counted instead of items
CountPages(count, clean_items) == count + 1

\* main.py line 72
CountItems(count, clean_items) == count + Len(clean_items)

\* main.py lines 48, 67: page_num = idx + 1 for the 0-based idx (i is 1-based here)
PageNo(i) == IntToStr(i)

\* main.py lines 56-70: the PageLevelData built from one result
PageData(i, result) ==
  [page_no |-> PageNo(i), page_type |-> result.page_type, bill_items |-> result.bill_items]

\* one pass of the loop of main.py lines 47-72, on the result at position i
AggregateStep(acc, i, result) ==
  [totals |-> AddUsage(acc.totals, result.usage),
   extracted_pages |-> Append(acc.extracted_pages, PageData(i, result)),
   global_item_count |-> CountItems(acc.global_item_count, result.bill_items)]

\* the loop of main.py lines 47-72 over the first n results
RECURSIVE Aggregate(_, _)
Aggregate(res, n) ==
  IF n = 0
    THEN [totals |-> [input_tokens |-> 0, output_tokens |-> 0, total_tokens |-> 0],
          extracted_pages |-> <<>>, global_item_count |-> 0]
    ELSE CHOOSE a \in { AggregateStep(acc, n, res[n]) : acc \in {Aggregate(res, n - 1)} } : TRUE

\* main.py lines 77-81, for the accumulated totals, pages and count
Respond(acc) ==
  [returned |-> TRUE, is_success |-> TRUE,
   token_usage |-> [total_tokens  |-> acc.totals.total_tokens,
                    input_tokens  |-> acc.totals.input_tokens,
                    output_tokens |-> acc.totals.output_tokens],
   data |-> [pagewise_line_items |-> acc.extracted_pages,
             total_item_count |-> acc.global_item_count],
   error |-> ""]

\* main.py lines 46-81: aggregate gather's results and build the response
SuccessResponse(res) ==
  CHOOSE r \in { Respond(acc) : acc \in {Aggregate(res, Len(res))} } : TRUE

\* gather returns once every task has returned: aggregate and respond
HandlerGatherReturns ==
  /\ pc = "gather"
  /\ \A i \in Pages : tstate[i] = "done"
  /\ resp' = SuccessResponse(results)
  /\ pc' = "done"
  /\ UNCHANGED <<doc, images, semValue, waiters, tstate, called, reply, outOfOrder, results,
                 sanitizerVars>>

\* gather raises the first exception a task raised; the other tasks run on
HandlerGatherRaises ==
  /\ pc = "gather"
  /\ AllStarted
  /\ \E i \in Pages : tstate[i] = "raised"
  /\ resp' = FailureResponse("cannot write image as JPEG")
  /\ pc' = "done"
  /\ UNCHANGED <<doc, images, semValue, waiters, tstate, called, reply, outOfOrder, results,
                 sanitizerVars>>

Init ==
  /\ doc \in Documents
  /\ pc = "start"
  /\ images = <<>>
  /\ semValue = 0
  /\ waiters = <<>>
  /\ tstate = <<>>
  /\ called = {}
  /\ outOfOrder = FALSE
  /\ reply = <<>>
  /\ results = <<>>
  /\ resp = NoResponse
  /\ items = <<>>
  /\ idx = 1
  /\ cleaned = <<>>
  /\ origin = <<>>
  /\ sanState = "idle"

Next ==
  \/ HandlerBegin
  \/ \E i \in Pages : TaskStart(i)
  \/ \E i \in Pages : TaskResume(i)
  \/ \E i \in Pages : \E r \in 1..Len(ReplySamples) : ModelReturn(i, r)
  \/ HandlerGatherReturns
  \/ HandlerGatherRaises

Spec == Init /\ [][Next]_vars

\* the event loop keeps running and every awaited model call completes: the
\* request never stops while one of its steps can be taken
SpecLive == Spec /\ WF_vars(Next)

(***************************************************************************)
(* The sanitizer's loop, one input item per step.                          *)
(***************************************************************************)
\* a plausible slip: the row is put in front of the list
InsertRowFirst(list, row) == <<row>> \o list

\* cleaned.append(row)
AppendRow(list, row) == Append(list, row)

\* the loop body of clean_and_validate_items on the next item
SanLoopBody ==
  /\ sanState = "loop"
  /\ idx <= Len(items)
  /\ \E r \in {CleanItem(items[idx])} :
         CASE r.o = "kept" ->
                /\ cleaned' = AppendRow(cleaned, r.out)
                /\ origin' = AppendRow(origin, idx)
                /\ idx' = idx + 1
                /\ UNCHANGED sanState
           [] r.o = "dropped" ->
                /\ idx' = idx + 1
                /\ UNCHANGED <<cleaned, origin, sanState>>
           [] OTHER ->
                /\ sanState' = r.o
                /\ UNCHANGED <<cleaned, origin, idx>>
  /\ UNCHANGED <<items, pipelineVars>>

\* return cleaned
SanReturn ==
  /\ sanState = "loop"
  /\ idx > Len(items)
  /\ sanState' = "returned"
  /\ UNCHANGED <<items, idx, cleaned, origin, pipelineVars>>

InitSanitizer ==
  /\ doc = Document(FALSE, TRUE, TRUE, <<TRUE>>)
  /\ pc = "idle"
  /\ images = <<>>
  /\ semValue = 0
  /\ waiters = <<>>
  /\ tstate = <<>>
  /\ called = {}
  /\ outOfOrder = FALSE
  /\ reply = <<>>
  /\ results = <<>>
  /\ resp = NoResponse
  /\ items \in ItemLists
  /\ idx = 1
  /\ cleaned = <<>>
  /\ origin = <<>>
  /\ sanState = "loop"

NextSanitizer == SanLoopBody \/ SanReturn

SpecSanitizer == InitSanitizer /\ [][NextSanitizer]_vars

(***************************************************************************)
(* Properties of one request (specification Spec).                         *)
(***************************************************************************)
\* the sum of a sequence of numbers
SumSeq(q) ==
  LET partial[k \in 0..Len(q)] == IF k = 0 THEN 0 ELSE partial[k - 1] + q[k]
  IN  partial[Len(q)]

\* what the invocation given page i produced from the reply its model call got
Produced(i) == ExtractResult(ReplySamples[reply[i]])

Succeeded == resp.returned /\ resp.is_success

\* C1: a successful response has exactly one entry per page of the document,
\* numbered "1", "2", ..., "N" in increasing order, and entry i carries the page
\* type and the items produced by the invocation that was given page i, in
\* whatever order the invocations completed.
C1_PagesInInputOrder ==
  Succeeded =>
    LET out == resp.data.pagewise_line_items
    IN  /\ Len(out) = Len(doc.pages)
        /\ \A i \in 1..Len(out) :
             /\ Len(out[i].page_no) >= 1
             /\ \A k \in 1..Len(out[i].page_no) : IsDigit(out[i].page_no[k])
             /\ out[i].page_no[1] # "0"
             /\ DigitsValue(out[i].page_no) = i
             /\ reply[i] > 0
             /\ out[i].page_type = Produced(i).page_type
             /\ out[i].bill_items = Produced(i).bill_items

\* a successful response for several pages with different contents, whose
\* invocations did not complete in page order
C1_Witness ==
  /\ Succeeded
  /\ outOfOrder
  /\ Len(resp.data.pagewise_line_items) >= 2
  /\ \E i, j \in 1..Len(resp.data.pagewise_line_items) :
       resp.data.pagewise_line_items[i].bill_items # resp.data.pagewise_line_items[j].bill_items

\* C2: at most 3 invocations hold a permit (inside the guarded section: image
\* encoded, model call awaited, or just handed the permit), and every unfinished
\* invocation outside the section has not issued its model call.
C2_AtMostThreeInSection ==
  /\ Cardinality({i \in Pages : tstate[i] \in {"woken", "awaiting"}}) <= 3
  /\ \A i \in Pages : tstate[i] \in {"created", "waiting", "woken"} => i \notin called
  /\ \A i \in Pages : tstate[i] = "awaiting" => i \in called

\* three invocations await their model call while another waits for a permit
C2_Witness ==
  /\ Cardinality({i \in Pages : tstate[i] = "awaiting"}) = 3
  /\ \E i \in Pages : tstate[i] = "waiting"

\* the model call of page i raised, or its reply was not JSON
ModelCallFailed(i) ==
  /\ tstate[i] = "done"
  /\ reply[i] > 0
  /\ \/ ReplySamples[reply[i]].raises
     \/ ReplySamples[reply[i]].content.body.t = "garbage"

\* C3: when the model call of a page raises or its reply is not valid JSON, that
\* page's result is exactly page type "Bill Detail", no items and no usage; the
\* other pages' results are what their own replies give; and the response has
\* is_success = true with one entry for every page.
C3_ModelFailureAbsorbed ==
  \A i \in Pages :
    ModelCallFailed(i) =>
      /\ results[i] = [page_type |-> <<"Bill Detail">>, bill_items |-> <<>>, usage |-> NoUsage]
      /\ \A j \in Pages \ {i} : tstate[j] = "done" => results[j] = Produced(j)
      /\ resp.returned =>
           /\ resp.is_success
           /\ Len(resp.data.pagewise_line_items) = Len(images)

\* C4: once the document is downloaded and rasterized, no failure inside one
\* page's invocation leaves the invocation: no task ends with an exception, and
\* the request ends with is_success = true.
C4_NoPageFailurePropagates ==
  (doc.reachable /\ doc.decodable) =>
    /\ \A i \in Pages : tstate[i] # "raised"
    /\ resp.returned => resp.is_success

\* C5: when the download fails or the bytes cannot be read as a PDF or an image,
\* no page invocation is created or started, the handler returns a response
\* rather than raising, and the response has is_success = false, a non-empty
\* error, zero token usage, no pages and total_item_count = 0.
C5_EarlyFailure ==
  (~doc.reachable \/ ~doc.decodable) =>
    /\ images = <<>> /\ tstate = <<>> /\ called = {}
    /\ pc = "done" => resp.returned
    /\ resp.returned =>
         /\ ~resp.is_success
         /\ resp.error # ""
         /\ resp.token_usage = [total_tokens |-> 0, input_tokens |-> 0, output_tokens |-> 0]
         /\ resp.data.pagewise_line_items = <<>>
         /\ resp.data.total_item_count = 0

\* the response to a document whose bytes are neither a PDF nor an image
C5_Witness == resp.returned /\ doc.reachable /\ ~doc.pdf /\ ~doc.decodable

\* C6: in every response returned, total_item_count is the sum over the entries
\* of pagewise_line_items of the number of bill_items in the entry.
C6_TotalItemCount ==
  resp.returned =>
    resp.data.total_item_count =
      SumSeq([i \in 1..Len(resp.data.pagewise_line_items) |->
                Len(resp.data.pagewise_line_items[i].bill_items)])

\* a successful response with an empty page and a page of several items
C6_Witness ==
  /\ Succeeded
  /\ \E i, j \in 1..Len(resp.data.pagewise_line_items) :
       /\ Len(resp.data.pagewise_line_items[i].bill_items) = 0
       /\ Len(resp.data.pagewise_line_items[j].bill_items) >= 2

\* C7: in a successful response each token total is the sum of the matching
\* field over exactly the pages whose result carries a usage record; a page
\* without usage adds 0, in whatever order the pages completed.
C7_TokenTotals ==
  Succeeded =>
    LET field(i, f) == IF results[i].usage.present THEN results[i].usage[f] ELSE 0
    IN  /\ resp.token_usage.input_tokens =
             SumSeq([i \in 1..Len(results) |-> field(i, "prompt_tokens")])
        /\ resp.token_usage.output_tokens =
             SumSeq([i \in 1..Len(results) |-> field(i, "completion_tokens")])
        /\ resp.token_usage.total_tokens =
             SumSeq([i \in 1..Len(results) |-> field(i, "total_tokens")])

\* a successful response over pages with and without usage, completed out of order
C7_Witness ==
  /\ Succeeded
  /\ outOfOrder
  /\ \E i \in Pages : ~results[i].usage.present
  /\ Cardinality({i \in Pages : results[i].usage.present}) >= 2

\* a field that float() cannot turn into a number
Uncoercible(v) ==
  \/ v.t \in {"list", "dict"} /\ v.n > 0
  \/ v.t = "str" /\ Len(v.s) > 0 /\ ParseFloat(v.s).err # "none"

\* a field that spells a number, or is missing or null
Coerces(v) ==
  \/ v.t \in {"missing", "null", "num", "bool"}
  \/ v.t = "str" /\ ParseFloat(v.s).err = "none"

\* kw occurs in name as a word: bounded by spaces or by the ends of the name
ContainsWord(name, kw) ==
  \E i \in 1..(Len(name) - Len(kw) + 1) :
    /\ SubSeq(name, i, i + Len(kw) - 1) = kw
    /\ i = 1 \/ name[i - 1] = " "
    /\ i + Len(kw) - 1 = Len(name) \/ name[i + Len(kw)] = " "

\* the name tests of the sanitizer, on the lower-cased, trimmed name
NameRejected(text) ==
  LET n == Lower(Strip(text))
  IN  \/ n = <<>>
      \/ n = <<"u", "n", "k", "n", "o", "w", "n">>
      \/ \E k \in 1..Len(BANNED_KEYWORDS) : ContainsWord(n, BANNED_KEYWORDS[k])

\* an input row that passes the name tests and whose numeric fields coerce
WellFormedRow(item) ==
  /\ item.t = "dict"
  /\ ~NameRejected(NameText(item.item_name))
  /\ Coerces(item.item_quantity) /\ Coerces(item.item_rate) /\ Coerces(item.item_amount)

\* C10: when one item of a page's reply has a quantity, rate or amount that
\* cannot be coerced to a number, only that item is dropped: the page keeps its
\* page type and usage record and every well-formed item of the page is returned.
C10_OnlyMalformedRowDropped ==
  \A i \in Pages :
    (tstate[i] = "done" /\ reply[i] > 0) =>
      LET r    == ReplySamples[reply[i]]
          body == r.content.body
          rows == body.bill_items.items
      IN  ( /\ ~r.raises /\ ~r.content.fence
            /\ body.t = "object" /\ body.bill_items.t = "list"
            /\ \E k \in 1..Len(rows) :
                 /\ rows[k].t = "dict"
                 /\ \/ Uncoercible(rows[k].item_quantity)
                    \/ Uncoercible(rows[k].item_rate)
                    \/ Uncoercible(rows[k].item_amount) )
          => /\ results[i].usage = r.usage
             /\ body.page_type.s \in PAGE_TYPES => results[i].page_type = body.page_type.s
             /\ \A k \in 1..Len(rows) :
                  WellFormedRow(rows[k]) =>
                    \E j \in 1..Len(results[i].bill_items) :
                      results[i].bill_items[j].item_name = Strip(NameText(rows[k].item_name))

(***************************************************************************)
(* Properties of the sanitizer (specification SpecSanitizer).              *)
(***************************************************************************)
\* C8: the sanitizer's output holds no item whose lower-cased, trimmed name is
\* empty, "unknown", a banned keyword, or contains a banned keyword as a
\* space-separated word; and once it has finished, every input item that passes
\* these tests and whose numeric fields coerce is in the list it returned.
C8_BannedRowsFiltered ==
  /\ \A j \in 1..Len(cleaned) : ~NameRejected(cleaned[j].item_name)
  /\ sanState \notin {"idle", "loop"} =>
       \A i \in 1..Len(items) :
         WellFormedRow(items[i]) =>
           /\ sanState = "returned"
           /\ \E j \in 1..Len(cleaned) : origin[j] = i

\* the quantity the claim takes for a row: 1.0 only when missing or null
ClaimedQuantity(v) == IF v.t \in {"missing", "null"} THEN Unit ELSE v.n

\* C9: a surviving item whose input amount is 0, missing or null and whose rate
\* is positive gets item_amount = round(rate * quantity, 2), with the quantity
\* of the input (1.0 only when it is missing or null); an item with a non-zero
\* input amount gets that amount rounded to 2 decimals.
C9_AmountBackfill ==
  \A j \in 1..Len(cleaned) :
    LET it == items[origin[j]]
    IN  ( /\ it.item_quantity.t \in {"missing", "null", "num"}
          /\ it.item_rate.t = "num"
          /\ it.item_amount.t \in {"missing", "null", "num"} )
        => /\ (it.item_amount.n = 0 /\ it.item_rate.n > 0) =>
                cleaned[j].item_amount =
                  Round2(Mul(it.item_rate.n, ClaimedQuantity(it.item_quantity)))
           /\ it.item_amount.n # 0 =>
                cleaned[j].item_amount = Round2(it.item_amount.n)

\* the reply of page i's model call
ReplyOf(i) == ReplySamples[reply[i]]

\* page i's model call returned a reply (the call itself did not raise)
Returned(i) == tstate[i] = "done" /\ reply[i] > 0 /\ ~ReplyOf(i).raises

\* C11: when a page's reply is a JSON object wrapped in a markdown code fence
\* (not parseable as received, parseable once the fence is stripped), the page's
\* result is the one the stripped text gives: its items and its usage record.
C11_FenceFallback ==
  \A i \in Pages :
    (Returned(i) /\ ReplyOf(i).content.fence /\ ReplyOf(i).content.body.t = "object") =>
      results[i] = ExtractResult([ReplyOf(i) EXCEPT !.content.fence = FALSE])

\* the sanitizer's output list handed back to it as an input list
AsInput(rows) ==
  [j \in 1..Len(rows) |->
     Item(JStr(rows[j].item_name), JNum(rows[j].item_quantity),
          JNum(rows[j].item_rate), JNum(rows[j].item_amount))]

\* C12: the sanitizer is idempotent: run on the list it returned, it returns
\* that same list, with no item dropped and no amount, rate or quantity changed.
C12_Idempotent ==
  sanState = "returned" =>
    clean_and_validate_items(AsInput(cleaned)) = [err |-> "none", items |-> cleaned]

\* C13: the sanitizer's output is an order-preserving subsequence of its input:
\* every output row is the row made from one input item, the input positions of
\* the output rows strictly increase (so no input item gives two rows and the
\* relative order is kept), and the list returned is determined by the input.
C13_OrderPreservingSubsequence ==
  /\ Len(origin) = Len(cleaned)
  /\ \A j \in 1..Len(cleaned) :
       /\ origin[j] \in 1..Len(items)
       /\ CleanItem(items[origin[j]]) = [o |-> "kept", out |-> cleaned[j]]
  /\ \A j, k \in 1..Len(cleaned) : j < k => origin[j] < origin[k]
  /\ sanState = "returned" =>
       /\ cleaned = clean_and_validate_items(items).items
       /\ \A i \in 1..Len(items) :
            CleanItem(items[i]).o = "kept" => \E j \in 1..Len(cleaned) : origin[j] = i

\* the sanitizer returned two different rows, made from two input items
C13_Witness ==
  /\ sanState = "returned"
  /\ Len(cleaned) = 2
  /\ cleaned[1] # cleaned[2]

\* C14: every line item of every response has a non-empty item_name and
\* non-negative item_amount, item_rate and item_quantity.
C14_LineItemInvariant ==
  resp.returned =>
    \A p \in 1..Len(resp.data.pagewise_line_items) :
      \A k \in 1..Len(resp.data.pagewise_line_items[p].bill_items) :
        LET it == resp.data.pagewise_line_items[p].bill_items[k]
        IN  /\ it.item_name # <<>>
            /\ it.item_amount >= 0
            /\ it.item_rate >= 0
            /\ it.item_quantity >= 0

\* for each sample reply, what the sanitizer makes of the item list it carries
SampleCleaned ==
  [r \in 1..Len(ReplySamples) |->
     clean_and_validate_items(ReplySamples[r].content.body.bill_items.items)]

\* page i's reply parsed to an object and its items were sanitized without an exception
PageSucceeded(i) ==
  /\ Returned(i)
  /\ ~ReplyOf(i).content.fence
  /\ ReplyOf(i).content.body.t = "object"
  /\ ReplyOf(i).content.body.bill_items.t \in {"missing", "list"}
  /\ SampleCleaned[reply[i]].err = "none"

\* C15: every page entry of every response has a page_type among "Bill Detail",
\* "Final Bill" and "Pharmacy"; a page whose reply carries one of the three keeps
\* it, and a page whose reply carries any other value, or none, gets "Bill
\* Detail" and keeps its sanitized items and its usage.
C15_PageTypeCoerced ==
  /\ resp.returned =>
       \A p \in 1..Len(resp.data.pagewise_line_items) :
         resp.data.pagewise_line_items[p].page_type \in PAGE_TYPES
  /\ \A i \in Pages :
       PageSucceeded(i) =>
         LET body == ReplyOf(i).content.body
             valid == body.page_type.t = "str" /\ body.page_type.s \in PAGE_TYPES
         IN  /\ results[i].page_type = IF valid THEN body.page_type.s ELSE <<"Bill Detail">>
             /\ results[i].bill_items = SampleCleaned[reply[i]].items
             /\ results[i].usage = ReplyOf(i).usage
             /\ Succeeded => resp.data.pagewise_line_items[i].page_type = results[i].page_type

\* a successful response with a page whose reply named a page type outside the
\* three and carried items, a page whose reply named none, and a page whose
\* reply named "Pharmacy"
C15_Witness ==
  /\ Succeeded
  /\ \E i, j, k \in Pages :
       /\ PageSucceeded(i) /\ PageSucceeded(j) /\ PageSucceeded(k)
       /\ ReplyOf(i).content.body.page_type.t = "str"
       /\ ReplyOf(i).content.body.page_type.s \notin PAGE_TYPES
       /\ resp.data.pagewise_line_items[i].bill_items # <<>>
       /\ ReplyOf(j).content.body.page_type.t = "missing"
       /\ ReplyOf(k).content.body.page_type.s = <<"Pharmacy">>
       /\ resp.data.pagewise_line_items[k].page_type = <<"Pharmacy">>

\* the invocations holding a permit: handed one and not yet resumed, or inside the section
Holders == {i \in Pages : tstate[i] \in {"woken", "awaiting"}}

\* the semaphore exists: the document was downloaded and rasterized
Dispatched == pc \in {"gather", "done"} /\ doc.reachable /\ doc.decodable

PermitsBalanced ==
  Dispatched => semValue >= 0 /\ semValue + Cardinality(Holders) = SEMAPHORE_SIZE

AllFinished == \A i \in Pages : tstate[i] \in {"done", "raised"}

\* C16: permits are conserved: free permits plus invocations holding one always
\* make 3, whichever way an invocation leaves the section; and, every model
\* call completing, every invocation eventually finishes, all 3 permits are
\* free again, and the handler has returned a response.
C16_PermitsConserved ==
  /\ []PermitsBalanced
  /\ <>[](resp.returned /\ AllFinished /\ (Dispatched => semValue = SEMAPHORE_SIZE))

\* a request of more pages than permits has ended: one invocation left with an
\* exception, the others returned, and all permits are free
C16_Witness ==
  /\ resp.returned
  /\ Len(images) > SEMAPHORE_SIZE
  /\ AllFinished
  /\ semValue = SEMAPHORE_SIZE
  /\ \E i \in Pages : tstate[i] = "raised"
  /\ Cardinality({i \in Pages : tstate[i] = "done"}) >= SEMAPHORE_SIZE

\* C17: once the handler has returned its response, no invocation of the request
\* holds a permit, awaits a model call or waits for a permit.
C17_NoWorkAfterResponse ==
  resp.returned =>
    \A i \in Pages : tstate[i] \notin {"waiting", "woken", "awaiting"}

\* C18 as stated: a finished page's usage record is present exactly when its
\* model call returned, its reply parsed and its items were sanitized without
\* an exception.
C18_UsageIffSucceeded ==
  \A i \in Pages :
    tstate[i] = "done" => (results[i].usage.present <=> PageSucceeded(i))

\* C18, amended: a finished page's usage record is present exactly when its
\* model call returned a reply that carries a usage record, the reply parsed and
\* its items were sanitized without an exception, and it is then the reply's
\* record; a page whose reply came with usage but failed to parse or sanitize
\* has the empty usage record, which adds 0 to a successful response's totals.
C18_UsageIffSucceededWithUsage ==
  /\ \A i \in Pages :
       tstate[i] = "done" =>
         /\ results[i].usage.present <=> (PageSucceeded(i) /\ ReplyOf(i).usage.present)
         /\ results[i].usage = IF PageSucceeded(i) THEN ReplyOf(i).usage ELSE NoUsage
  /\ Succeeded =>
       resp.token_usage.total_tokens =
         SumSeq([i \in 1..Len(results) |-> results[i].usage.total_tokens])

\* a successful response with a page whose reply came with a usage record but
\* was not JSON, a page whose items raised in the sanitizer, and a page that succeeded
C18_Witness ==
  /\ Succeeded
  /\ \E i, j, k \in Pages :
       /\ Returned(i) /\ ReplyOf(i).usage.present /\ ReplyOf(i).content.body.t = "garbage"
       /\ ~results[i].usage.present
       /\ Returned(j) /\ ReplyOf(j).usage.present /\ ReplyOf(j).content.body.t = "object"
       /\ ~ReplyOf(j).content.fence /\ ~PageSucceeded(j)
       /\ ~results[j].usage.present
       /\ PageSucceeded(k) /\ results[k].usage.present
  /\ resp.token_usage.total_tokens > 0

====
